---------------------------- MODULE Spec2Model ----------------------------
(***************************************************************************)
(* Model of server/lib/activitypub/process/process-update.ts (PeerTube):   *)
(* the dispatcher processUpdateActivity and the four reconcilers           *)
(* processUpdateVideo, processUpdateCacheFile, processUpdateActor and      *)
(* processUpdatePlaylist, each run through retryTransactionWrapper.        *)
(*                                                                         *)
(* A worker handles one Update notice at a time.  Every await of the       *)
(* source is one action; the outcome of a collaborator call (value         *)
(* returned, or error raised) is chosen by the environment.                *)
(***************************************************************************)
EXTENDS Naturals, FiniteSets, Sequences, TLC

\* ------------------------------------------------------------------ bounds

\* Retries the wrapper grants after the first invocation (N of the spec).
RetryBound == 2

\* Notices one worker handles in a behaviour.
MaxNotices == 1

\* ------------------------------------------------------------- fixed sets

Workers == {"w1", "w2"}

\* Actors with a row in the store.  alice owns an Account, chan owns a
\* VideoChannel.  ghost signs notices but has no row: loading it is NotFound.
StoredActors == {"alice", "chan"}
Signers == StoredActors \cup {"ghost"}

\* local is a video this node owns; remote is one it mirrors, once known.
Videos == {"local", "remote"}

\* Tags of the notices' contents.
Payloads == {"A", "B"}

ActorKinds == {"Person", "Application", "Group"}
Kinds == {"Video", "CacheFile", "Playlist", "Note"} \cup ActorKinds

\* The undefined value of the source (an absent association, an unset local).
Undefined == [undefined |-> TRUE]

\* A field value: the field's name with the tag of the notice that wrote it.
Val(f, p) == <<f, p>>
Old(f) == <<f, "old">>

\* The errors a collaborator raises: a storage conflict (the class the retry
\* wrapper retries) or any other error.
Errors == {"conflict", "fatal"}
NoError == "none"


\* ------------------------------------------------------------------ state

VARIABLES
    dbActor,      \* store: ActorModel rows, by actor
    dbSide,       \* store: the AccountModel or VideoChannelModel row of an actor
    dbVideo,      \* store: VideoModel rows (Undefined: not known locally)
    dbCache,      \* store: cache-file entries keyed by <<video, signer>>
    dbPlaylist,   \* store: playlists, by owning account
    pc,           \* each worker's position
    notice,       \* the Update activity a worker is handling
    byActorFull,  \* the signer instance the dispatcher loaded, in memory
    attempts,     \* retry wrapper: invocations of the reconciler so far
    err,          \* the error in flight, if any
    outcome,      \* what the caller of processUpdateActivity observed
    done,         \* notices handled so far, per worker
    fn,           \* retry wrapper: the reconciler it was handed
    loc,          \* locals of the reconciler being run
    tx,           \* writes staged in the worker's open transaction
    h,            \* history: what the notice has caused so far
    calls,        \* history: the collaborators the current attempt has called
    fails         \* history: the errors collaborators raised for the notice

dbVars == <<dbActor, dbSide, dbVideo, dbCache, dbPlaylist>>
vars == <<dbActor, dbSide, dbVideo, dbCache, dbPlaylist, pc, notice,
          byActorFull, attempts, err, outcome, done, fn, loc, tx, h, calls,
          fails>>

hist == <<h, calls, fails>>

Store == [actor |-> dbActor, side |-> dbSide, video |-> dbVideo,
          cache |-> dbCache, playlist |-> dbPlaylist]

\* ------------------------------------------------------------- the store

\* The association an actor row carries: alice is an individual, chan a group.
SideOf(a) == IF a = "alice" THEN "Account" ELSE "VideoChannel"

Accounts == {a \in StoredActors : SideOf(a) = "Account"}

ActorRow0 == [preferredUsername |-> Old("preferredUsername"),
              avatar |-> Old("avatar"), banner |-> Old("banner")]

\* An account has no support column; a channel has one.
SideRow0(a) ==
    IF SideOf(a) = "Account"
    THEN [name |-> Old("name"), description |-> Old("description")]
    ELSE [name |-> Old("name"), description |-> Old("description"),
          support |-> Old("support")]

VideoRow(owned, desc) == [owned |-> owned, desc |-> desc]

NoTx == [actor |-> Undefined, side |-> Undefined]

Loc0 == [sel |-> "none", actorFieldsSave |-> Undefined,
         accountOrChannelFieldsSave |-> Undefined,
         video |-> "none", created |-> FALSE]

\* creates, merges, cacheUpserts, playlistUpserts, commits: calls counted over
\* the notice; forwards: the forward calls made; auth: the answer of the
\* redundancy check in the current attempt; loads, wrapped: what the
\* dispatcher did; storePre, memPre: the store when the notice arrived and
\* the signer instance as loaded; storeAtInvoke: the store when the current
\* attempt began; upserted: the cache-file transaction of the current attempt
\* has committed; writes: the writes the reconcilers asked the store for, each
\* with the replica, the position of the code and whether it ran in a
\* transaction.
H0 == [creates |-> 0, merges |-> 0, cacheUpserts |-> 0, playlistUpserts |-> 0,
       commits |-> 0, forwards |-> {}, auth |-> "unasked", loads |-> 0,
       wrapped |-> FALSE, storePre |-> Undefined, memPre |-> Undefined,
       storeAtInvoke |-> Undefined, upserted |-> FALSE, writes |-> {}]

\* conflicts, fatals: errors raised by collaborators, by class; step, error:
\* where the last one was raised and what it was.
Fails0 == [conflicts |-> 0, fatals |-> 0, step |-> "none", error |-> NoError]

\* ---------------------------------------------------------------- notices

\* An Update activity.  valid is the answer of the shape validator for its
\* object; hasName says whether the actor object carries a name; hasAvatar
\* and hasBanner whether getImageInfoIfExists finds an icon or an image;
\* byActorAccount whether options.byActor carries an Account.
Notice(k, s, p, valid, v, hn, ha, hb) ==
    [kind |-> k, signer |-> s, p |-> p, valid |-> valid, video |-> v,
     hasName |-> hn, hasAvatar |-> ha, hasBanner |-> hb]

\* What an actor object carries, as <<hasName, hasAvatar, hasBanner>>: each
\* part present in some object and absent from another, the two images
\* apart and together.
ObjectShapes ==
    {<<TRUE, TRUE, FALSE>>, <<TRUE, FALSE, TRUE>>, <<FALSE, TRUE, TRUE>>,
     <<FALSE, FALSE, FALSE>>}

Notices ==
    {Notice("Video", s, p, valid, v, FALSE, FALSE, FALSE) :
        s \in Signers, p \in Payloads, valid \in BOOLEAN, v \in Videos}
    \cup
    {Notice("CacheFile", s, p, valid, v, FALSE, FALSE, FALSE) :
        s \in Signers, p \in Payloads, valid \in BOOLEAN, v \in Videos}
    \cup
    {Notice(k, s, p, TRUE, "none", sh[1], sh[2], sh[3]) :
        k \in ActorKinds, s \in Signers, p \in Payloads, sh \in ObjectShapes}
    \cup
    {Notice(k, s, p, TRUE, "none", FALSE, FALSE, FALSE) :
        k \in {"Playlist", "Note"}, s \in Signers, p \in Payloads}

\* options.byActor: the signer as the caller resolved it (MActorSignature).
\* Only an individual's actor carries an Account.
ByActorAccount(n) ==
    IF n.signer \in Accounts THEN n.signer ELSE "none"

\* ----------------------------------------------------------------- Init

TypeOK ==
    /\ pc \in [Workers -> STRING]
    /\ \A w \in Workers : attempts[w] \in 0 .. (RetryBound + 1)
    /\ \A w \in Workers : done[w] \in 0 .. MaxNotices
    /\ \A w \in Workers : err[w] \in Errors \cup {NoError}

InitStore ==
    /\ dbActor = [a \in StoredActors |-> ActorRow0]
    /\ dbSide = [a \in StoredActors |-> SideRow0(a)]
    /\ \E known \in BOOLEAN :
          dbVideo = [v \in Videos |->
                       IF v = "local" THEN VideoRow(TRUE, Old("desc"))
                       ELSE IF known THEN VideoRow(FALSE, Old("desc"))
                       ELSE Undefined]
    /\ dbCache = [k \in Videos \X StoredActors |-> "none"]
    /\ dbPlaylist = [a \in Accounts |-> "none"]

InitWorkers(on) ==
    /\ pc = [w \in Workers |-> IF w \in on THEN "idle" ELSE "off"]
    /\ notice = [w \in Workers |-> Undefined]
    /\ byActorFull = [w \in Workers |-> Undefined]
    /\ attempts = [w \in Workers |-> 0]
    /\ err = [w \in Workers |-> NoError]
    /\ outcome = [w \in Workers |-> "none"]
    /\ done = [w \in Workers |-> 0]
    /\ fn = [w \in Workers |-> "none"]
    /\ loc = [w \in Workers |-> Loc0]
    /\ tx = [w \in Workers |-> NoTx]
    /\ h = [w \in Workers |-> H0]
    /\ calls = [w \in Workers |-> {}]
    /\ fails = [w \in Workers |-> Fails0]

\* One worker handles notices one after the other.
Init == InitStore /\ InitWorkers({"w1"})



\* ------------------------------------------------------ history, raising

\* What a collaborator call comes to: it returns, or it raises.
Results == {"ok"} \cup Errors

\* The worker's current attempt has called collaborator c.
Called(w, c) == calls' = [calls EXCEPT ![w] = @ \cup {c}]

\* An error e leaves the reconciler at position step.
Raise(w, e, step) ==
    /\ pc' = [pc EXCEPT ![w] = "raised"]
    /\ err' = [err EXCEPT ![w] = e]
    /\ fails' = [fails EXCEPT
                   ![w].conflicts = IF e = "conflict" THEN @ + 1 ELSE @,
                   ![w].fatals = IF e = "fatal" THEN @ + 1 ELSE @,
                   ![w].step = step,
                   ![w].error = e]

\* A faulty line 128: the actor is saved with no transaction option.
PassesTransaction_NotActor(step) == step \in {"c_upsert", "a_side"}

\* A faulty line 135: the side instance is saved with no transaction option.
PassesTransaction_NotSide(step) == step \in {"c_upsert", "a_save"}

\* Lines 91, 128 and 135: the writes made in the callback of a
\* sequelizeTypescript.transaction of this file, with its t handed on.
PassesTransaction(step) == step \in {"c_upsert", "a_save", "a_side"}

\* The writes of getOrCreateAPVideo, APVideoUpdater.update and
\* createOrUpdateVideoPlaylist, which are handed no transaction: each goes
\* through the storage layer's transaction primitive on its own.
OpensOwnTransaction(step) == step \in {"v_start", "v_update", "c_fetch", "p_start"}

\* The history record hw after a write of a replica at a position.
Wrote(hw, replica, step) ==
    [hw EXCEPT !.writes = @ \cup
        {[replica |-> replica, step |-> step,
          inTx |-> PassesTransaction(step) \/ OpensOwnTransaction(step)]}]

\* --------------------------------------------------- arrival of a notice

\* An idle worker takes Update activity n: processUpdateActivity is called.
Accept(w, n) ==
    /\ pc[w] = "idle"
    /\ done[w] < MaxNotices
    /\ notice' = [notice EXCEPT ![w] = n]
    /\ pc' = [pc EXCEPT ![w] = "dispatch"]
    /\ byActorFull' = [byActorFull EXCEPT ![w] = Undefined]
    /\ attempts' = [attempts EXCEPT ![w] = 0]
    /\ err' = [err EXCEPT ![w] = NoError]
    /\ outcome' = [outcome EXCEPT ![w] = "none"]
    /\ fn' = [fn EXCEPT ![w] = "none"]
    /\ loc' = [loc EXCEPT ![w] = Loc0]
    /\ tx' = [tx EXCEPT ![w] = NoTx]
    /\ h' = [h EXCEPT ![w] = [H0 EXCEPT !.storePre = Store]]
    /\ calls' = [calls EXCEPT ![w] = {}]
    /\ fails' = [fails EXCEPT ![w] = Fails0]
    /\ UNCHANGED <<dbVars, done>>

\* The transport layer hands the worker its next Update activity.
Receive(w) == \E n \in Notices : Accept(w, n)

\* ---------------------------------------------------------- the dispatcher

\* ActorModel.loadByUrlAndPopulateAccountAndChannel: the actor's row with its
\* Account and VideoChannel associations, or nothing when no row has the url.
LoadByUrlAndPopulateAccountAndChannel(url) ==
    IF url \in StoredActors
    THEN [id |-> url,
          fields |-> dbActor[url],
          Account |-> IF SideOf(url) = "Account" THEN dbSide[url] ELSE Undefined,
          VideoChannel |-> IF SideOf(url) = "VideoChannel" THEN dbSide[url]
                           ELSE Undefined]
    ELSE Undefined

\* A faulty dispatch: an object type no branch names falls into the last
\* branch instead of past it.
ReconcilerFor_Fallthrough(objectType) ==
    CASE objectType = "Video" -> "processUpdateVideo"
      [] objectType \in {"Person", "Application", "Group"} -> "processUpdateActor"
      [] objectType = "CacheFile" -> "processUpdateCacheFile"
      [] OTHER -> "processUpdatePlaylist"

\* Lines 27-47: the reconciler processUpdateActivity hands to the retry
\* wrapper for an object type; "none" when it hands nothing and returns.
ReconcilerFor(objectType) ==
    CASE objectType = "Video" -> "processUpdateVideo"
      [] objectType \in {"Person", "Application", "Group"} -> "processUpdateActor"
      [] objectType = "CacheFile" -> "processUpdateCacheFile"
      [] objectType = "Playlist" -> "processUpdatePlaylist"
      [] OTHER -> "none"

\* Lines 33 and 39: the branches that load the full signer before the call.
NeedsFullActor(objectType) ==
    objectType \in {"Person", "Application", "Group", "CacheFile"}

\* Lines 22-48.  The loaded instance goes to the wrapper as it is.
processUpdateActivity(w) ==
    /\ pc[w] = "dispatch"
    /\ LET objectType == notice[w].kind
           f == ReconcilerFor(objectType)
       IN IF f = "none"
          THEN /\ pc' = [pc EXCEPT ![w] = "idle"]
               /\ outcome' = [outcome EXCEPT ![w] = "completed"]
               /\ done' = [done EXCEPT ![w] = @ + 1]
               /\ UNCHANGED <<byActorFull, fn, h>>
          ELSE /\ pc' = [pc EXCEPT ![w] = "invoke"]
               /\ fn' = [fn EXCEPT ![w] = f]
               /\ IF NeedsFullActor(objectType)
                  THEN /\ byActorFull' = [byActorFull EXCEPT ![w] =
                              LoadByUrlAndPopulateAccountAndChannel(notice[w].signer)]
                       /\ h' = [h EXCEPT ![w].loads = @ + 1,
                                         ![w].wrapped = TRUE,
                                         ![w].memPre = byActorFull'[w]]
                  ELSE /\ h' = [h EXCEPT ![w].wrapped = TRUE]
                       /\ UNCHANGED byActorFull
               /\ UNCHANGED <<outcome, done>>
    /\ UNCHANGED <<dbVars, notice, attempts, err, loc, tx, calls, fails>>

\* ------------------------------------------------------- the retry wrapper

\* The error class the wrapper retries: a storage conflict.
WillRetry(e) == e = "conflict"

\* Whether the wrapper may invoke again after n invocations.
RetriesLeft(n) == n <= RetryBound

\* The first position of a reconciler.
Entry(f) ==
    CASE f = "processUpdateVideo" -> "v_start"
      [] f = "processUpdateActor" -> "a_begin"
      [] f = "processUpdateCacheFile" -> "c_start"
      [] f = "processUpdatePlaylist" -> "p_start"

\* The wrapper calls the reconciler with the arguments it was given.
Invoke(w) ==
    /\ pc[w] = "invoke"
    /\ attempts' = [attempts EXCEPT ![w] = @ + 1]
    /\ loc' = [loc EXCEPT ![w] = Loc0]
    /\ h' = [h EXCEPT ![w].auth = "unasked", ![w].storeAtInvoke = Store,
                      ![w].upserted = FALSE]
    /\ calls' = [calls EXCEPT ![w] = {}]
    /\ pc' = [pc EXCEPT ![w] = Entry(fn[w])]
    /\ UNCHANGED <<dbVars, notice, byActorFull, err, outcome, done, fn, tx,
                   fails>>

\* The reconciler returned: so does processUpdateActivity.
WrapperReturn(w) ==
    /\ pc[w] = "returned"
    /\ pc' = [pc EXCEPT ![w] = "idle"]
    /\ outcome' = [outcome EXCEPT ![w] = "completed"]
    /\ done' = [done EXCEPT ![w] = @ + 1]
    /\ UNCHANGED <<dbVars, notice, byActorFull, attempts, err, fn, loc, tx,
                   hist>>

\* The reconciler raised: a conflict is retried while retries are left, any
\* other error, or a conflict with none left, reaches the caller of
\* processUpdateActivity.
WrapperCatch(w) ==
    /\ pc[w] = "raised"
    /\ IF WillRetry(err[w]) /\ RetriesLeft(attempts[w])
       THEN /\ pc' = [pc EXCEPT ![w] = "invoke"]
            /\ err' = [err EXCEPT ![w] = NoError]
            /\ UNCHANGED <<outcome, done>>
       ELSE /\ pc' = [pc EXCEPT ![w] = "idle"]
            /\ outcome' = [outcome EXCEPT ![w] = "failed"]
            /\ done' = [done EXCEPT ![w] = @ + 1]
            /\ UNCHANGED err
    /\ UNCHANGED <<dbVars, notice, byActorFull, attempts, fn, loc, tx, hist>>

\* ------------------------------------------------------ processUpdateVideo

\* getOrCreateAPVideo: whether this call created the replica of video v, and
\* the store's video table after the call.
GetOrCreateAPVideo(v) ==
    IF dbVideo[v] = Undefined
    THEN [created |-> TRUE,
          video |-> [dbVideo EXCEPT ![v] = VideoRow(FALSE, Val("desc", "fetched"))]]
    ELSE [created |-> FALSE, video |-> dbVideo]

\* A faulty validation: the validator's answer is not looked at.
FailsValidation_Never(valid) == FALSE

\* Lines 61 and 83: the object is dropped when its validator answers false.
FailsValidation(valid) == valid = FALSE

\* A faulty line 72: the created flag is ignored.
SkipsUpdate_Never(created) == FALSE

\* Line 72: a replica this call created is not merged into.
SkipsUpdate(created) == created

\* Lines 58-72: validate the object, then fetch or create the replica.
processUpdateVideo_fetch(w) ==
    /\ pc[w] = "v_start"
    /\ IF FailsValidation(notice[w].valid)
       THEN /\ pc' = [pc EXCEPT ![w] = "returned"]
            /\ UNCHANGED <<dbVideo, err, loc, hist>>
       ELSE /\ Called(w, "getOrCreateAPVideo")
            /\ \E r \in Results :
                 IF r = "ok"
                 THEN LET got == GetOrCreateAPVideo(notice[w].video)
                      IN /\ dbVideo' = got.video
                         /\ loc' = [loc EXCEPT ![w].video = notice[w].video,
                                               ![w].created = got.created]
                         /\ h' = [h EXCEPT ![w] =
                                      IF got.created
                                      THEN Wrote([@ EXCEPT !.creates = @ + 1],
                                                 "video", "v_start")
                                      ELSE @]
                         /\ pc' = [pc EXCEPT ![w] =
                                      IF SkipsUpdate(got.created) THEN "returned"
                                      ELSE "v_update"]
                         /\ UNCHANGED <<err, fails>>
                 ELSE /\ Raise(w, r, "v_start")
                      /\ UNCHANGED <<dbVideo, loc, h>>
    /\ UNCHANGED <<dbActor, dbSide, dbCache, dbPlaylist, notice, byActorFull,
                   attempts, outcome, done, fn, tx>>

\* Lines 74-75: APVideoUpdater.update merges the object into the replica.
processUpdateVideo_update(w) ==
    /\ pc[w] = "v_update"
    /\ Called(w, "APVideoUpdater.update")
    /\ \E r \in Results :
         IF r = "ok"
         THEN /\ dbVideo' = [dbVideo EXCEPT ![loc[w].video].desc =
                                Val("desc", notice[w].p)]
              /\ h' = [h EXCEPT ![w] =
                          Wrote([@ EXCEPT !.merges = @ + 1], "video", "v_update")]
              /\ pc' = [pc EXCEPT ![w] = "returned"]
              /\ UNCHANGED <<err, fails>>
         ELSE /\ Raise(w, r, "v_update")
              /\ h' = [h EXCEPT ![w].merges = @ + 1]
              /\ UNCHANGED dbVideo
    /\ UNCHANGED <<dbActor, dbSide, dbCache, dbPlaylist, notice, byActorFull,
                   attempts, outcome, done, fn, loc, tx>>

\* -------------------------------------------------- processUpdateCacheFile

\* A faulty line 79: the answer is not looked at.
PassesRedundancyCheck_Always(accepted) == TRUE

\* Line 79: only an answer of true lets the reconciler go on.
PassesRedundancyCheck(accepted) == accepted = TRUE

\* Lines 79-86: ask whether the signer is accepted for redundancy, then
\* validate the object.  The check reads the store outside any transaction
\* and writes nothing: it answers, or fails with an error that is no
\* write-write conflict.
processUpdateCacheFile_check(w) ==
    /\ pc[w] = "c_start"
    /\ Called(w, "isRedundancyAccepted")
    /\ \/ \E accepted \in BOOLEAN :
            /\ h' = [h EXCEPT ![w].auth = IF accepted THEN "yes" ELSE "no"]
            /\ pc' = [pc EXCEPT ![w] =
                         IF ~PassesRedundancyCheck(accepted) THEN "returned"
                         ELSE IF FailsValidation(notice[w].valid) THEN "returned"
                         ELSE "c_fetch"]
            /\ UNCHANGED <<err, fails>>
       \/ /\ Raise(w, "fatal", "c_start")
          /\ UNCHANGED h
    /\ UNCHANGED <<dbVars, notice, byActorFull, attempts, outcome, done, fn,
                   loc, tx>>

\* Line 88: fetch or create the video the cache file is of.
processUpdateCacheFile_fetch(w) ==
    /\ pc[w] = "c_fetch"
    /\ Called(w, "getOrCreateAPVideo")
    /\ \E r \in Results :
         IF r = "ok"
         THEN LET got == GetOrCreateAPVideo(notice[w].video)
              IN /\ dbVideo' = got.video
                 /\ loc' = [loc EXCEPT ![w].video = notice[w].video,
                                       ![w].created = got.created]
                 /\ h' = [h EXCEPT ![w] =
                              IF got.created
                              THEN Wrote([@ EXCEPT !.creates = @ + 1],
                                         "video", "c_fetch")
                              ELSE @]
                 /\ pc' = [pc EXCEPT ![w] = "c_upsert"]
                 /\ UNCHANGED <<err, fails>>
         ELSE /\ Raise(w, r, "c_fetch")
              /\ UNCHANGED <<dbVideo, loc, h>>
    /\ UNCHANGED <<dbActor, dbSide, dbCache, dbPlaylist, notice, byActorFull,
                   attempts, outcome, done, fn, tx>>

\* A faulty line 94: the notice is forwarded whoever owns the video.
ShouldForward_Always(video) == TRUE

\* Line 94: the notice is forwarded only for a video this node owns.
ShouldForward(video) == video.owned

\* A faulty line 90: a failure of the transaction is logged and the
\* reconciler goes on to line 94.
processUpdateCacheFile_upsert_swallow(w) ==
    /\ pc[w] = "c_upsert"
    /\ Called(w, "createOrUpdateCacheFile")
    /\ \E r \in Results :
         /\ IF r = "ok" /\ byActorFull[w] # Undefined
            THEN /\ dbCache' = [dbCache EXCEPT
                                   ![<<loc[w].video, byActorFull[w].id>>] =
                                       notice[w].p]
                 /\ h' = [h EXCEPT ![w] =
                             Wrote([@ EXCEPT !.cacheUpserts = @ + 1,
                                             !.upserted = TRUE],
                                   "cache", "c_upsert")]
            ELSE /\ h' = [h EXCEPT ![w].cacheUpserts = @ + 1]
                 /\ UNCHANGED dbCache
         /\ pc' = [pc EXCEPT ![w] =
                      IF ShouldForward(dbVideo[loc[w].video]) THEN "c_forward"
                      ELSE "returned"]
    /\ UNCHANGED <<dbActor, dbSide, dbVideo, dbPlaylist, notice, byActorFull,
                   attempts, err, outcome, done, fn, loc, tx, fails>>

\* Lines 90-94: upsert the cache-file entry in a transaction of its own.  The
\* entry is keyed by the video and the signer: with no signer instance the
\* upsert raises.
processUpdateCacheFile_upsert(w) ==
    /\ pc[w] = "c_upsert"
    /\ Called(w, "createOrUpdateCacheFile")
    /\ \E r \in Results :
         IF r = "ok" /\ byActorFull[w] # Undefined
         THEN /\ dbCache' = [dbCache EXCEPT
                                ![<<loc[w].video, byActorFull[w].id>>] = notice[w].p]
              /\ h' = [h EXCEPT ![w] =
                          Wrote([@ EXCEPT !.cacheUpserts = @ + 1,
                                          !.upserted = TRUE],
                                "cache", "c_upsert")]
              /\ pc' = [pc EXCEPT ![w] =
                           IF ShouldForward(dbVideo[loc[w].video]) THEN "c_forward"
                           ELSE "returned"]
              /\ UNCHANGED <<err, fails>>
         ELSE /\ Raise(w, IF r = "ok" THEN "fatal" ELSE r, "c_upsert")
              /\ h' = [h EXCEPT ![w].cacheUpserts = @ + 1]
              /\ UNCHANGED dbCache
    /\ UNCHANGED <<dbActor, dbSide, dbVideo, dbPlaylist, notice, byActorFull,
                   attempts, outcome, done, fn, loc, tx>>

ActorId(byActor) == IF byActor = Undefined THEN "undefined" ELSE byActor.id

\* A faulty line 96: nobody is left out.
ForwardExceptions_None(byActor) == {}

\* Line 96: the actors the forward leaves out.
ForwardExceptions(byActor) == {ActorId(byActor)}

\* Lines 96-98: forward the activity to the video's followers.
processUpdateCacheFile_forward(w) ==
    /\ pc[w] = "c_forward"
    /\ h' = [h EXCEPT ![w].forwards = @ \cup
                {[video |-> loc[w].video,
                  exceptions |-> ForwardExceptions(byActorFull[w])]}]
    /\ Called(w, "forwardVideoRelatedActivity")
    /\ \E r \in Results :
         IF r = "ok"
         THEN /\ pc' = [pc EXCEPT ![w] = "returned"]
              /\ UNCHANGED <<err, fails>>
         ELSE Raise(w, r, "c_forward")
    /\ UNCHANGED <<dbVars, notice, byActorFull, attempts, outcome, done, fn,
                   loc, tx>>

\* --------------------------------------------------- processUpdatePlaylist

\* A faulty line 158: the account is not checked.
HasAccount_Always(byAccount) == TRUE

\* Line 158: the signer must carry an Account.
HasAccount(byAccount) == byAccount # "none"

\* Lines 154-160: check the signer's account, then upsert the playlist.
processUpdatePlaylist(w) ==
    /\ pc[w] = "p_start"
    /\ LET byAccount == ByActorAccount(notice[w])
       IN IF ~HasAccount(byAccount)
          THEN /\ Raise(w, "fatal", "p_start")
               /\ UNCHANGED <<dbPlaylist, h, calls>>
          ELSE /\ Called(w, "createOrUpdateVideoPlaylist")
               /\ \E r \in Results :
                    IF r = "ok"
                    THEN /\ dbPlaylist' =
                               [a \in Accounts |->
                                   IF a = byAccount THEN notice[w].p
                                   ELSE dbPlaylist[a]]
                         /\ h' = [h EXCEPT ![w] =
                                     Wrote([@ EXCEPT !.playlistUpserts = @ + 1],
                                           "playlist", "p_start")]
                         /\ pc' = [pc EXCEPT ![w] = "returned"]
                         /\ UNCHANGED <<err, fails>>
                    ELSE /\ Raise(w, r, "p_upsert")
                         /\ h' = [h EXCEPT ![w].playlistUpserts = @ + 1]
                         /\ UNCHANGED dbPlaylist
    /\ UNCHANGED <<dbActor, dbSide, dbVideo, dbCache, notice, byActorFull,
                   attempts, outcome, done, fn, loc, tx>>

\* ------------------------------------------------------ processUpdateActor

\* updateActorInstance: the actor-level identity fields of the object.
UpdateActorInstance(fields, n) ==
    [fields EXCEPT !.preferredUsername = Val("preferredUsername", n.p)]

\* updateActorImageInstance: the image field, when the object has the image.
UpdateActorImageInstance(fields, type, has, n) ==
    IF has THEN [fields EXCEPT ![type] = Val(type, n.p)] ELSE fields

\* resetSequelizeInstance: every field of the snapshot is put back.
ResetSequelizeInstance(instance, savedFields) ==
    [k \in DOMAIN instance |->
        IF k \in DOMAIN savedFields THEN savedFields[k] ELSE instance[k]]

\* Faulty lines 118-119: the two branches are swapped.
SelectSide_Swapped(type) == IF type = "Group" THEN "Account" ELSE "VideoChannel"

\* Lines 118-119: the association the object's type selects.
SelectSide(type) == IF type = "Group" THEN "VideoChannel" ELSE "Account"

\* A faulty line 133: support is not assigned.
AssignSideFields_NoSupport(instance, sel, n) ==
    [instance EXCEPT
        !.name = IF n.hasName THEN Val("name", n.p)
                 ELSE Val("preferredUsername", n.p),
        !.description = Val("summary", n.p)]

\* Lines 130-133: name (preferredUsername when the object has no name),
\* description and, on a channel instance only, support.
AssignSideFields(instance, sel, n) ==
    LET named == [instance EXCEPT
                    !.name = IF n.hasName THEN Val("name", n.p)
                             ELSE Val("preferredUsername", n.p),
                    !.description = Val("summary", n.p)]
    IN IF sel = "VideoChannel"
       THEN [named EXCEPT !.support = Val("support", n.p)]
       ELSE named

\* A step of the transaction callback failed: the transaction is rolled
\* back and the error lands in the catch block.
FailInTx(w, e) ==
    /\ pc' = [pc EXCEPT ![w] = "a_catch"]
    /\ err' = [err EXCEPT ![w] = e]
    /\ tx' = [tx EXCEPT ![w] = NoTx]
    /\ fails' = [fails EXCEPT
                   ![w].conflicts = IF e = "conflict" THEN @ + 1 ELSE @,
                   ![w].fatals = IF e = "fatal" THEN @ + 1 ELSE @,
                   ![w].step = pc[w],
                   ![w].error = e]

\* Lines 115-121: open the transaction, snapshot the actor, select the side
\* instance and snapshot it.  toJSON of an undefined instance is a TypeError.
processUpdateActor_begin(w) ==
    /\ pc[w] = "a_begin"
    /\ IF byActorFull[w] = Undefined
       THEN /\ FailInTx(w, "fatal")
            /\ UNCHANGED loc
       ELSE LET sel == SelectSide(notice[w].kind)
                saved == [loc[w] EXCEPT !.sel = sel,
                             !.actorFieldsSave = byActorFull[w].fields]
            IN IF byActorFull[w][sel] = Undefined
               THEN /\ FailInTx(w, "fatal")
                    /\ loc' = [loc EXCEPT ![w] = saved]
               ELSE /\ loc' = [loc EXCEPT ![w] =
                                 [saved EXCEPT !.accountOrChannelFieldsSave =
                                     byActorFull[w][sel]]]
                    /\ pc' = [pc EXCEPT ![w] = "a_update"]
                    /\ UNCHANGED <<err, tx, fails>>
    /\ UNCHANGED <<dbVars, notice, byActorFull, attempts, outcome, done, fn, h,
                   calls>>

\* Line 123.
processUpdateActor_update(w) ==
    /\ pc[w] = "a_update"
    /\ Called(w, "updateActorInstance")
    /\ \E r \in Results :
         IF r = "ok"
         THEN /\ byActorFull' = [byActorFull EXCEPT ![w].fields =
                                    UpdateActorInstance(@, notice[w])]
              /\ pc' = [pc EXCEPT ![w] = "a_avatar"]
              /\ UNCHANGED <<err, tx, fails>>
         ELSE /\ FailInTx(w, r)
              /\ UNCHANGED byActorFull
    /\ UNCHANGED <<dbVars, notice, attempts, outcome, done, fn, loc, h>>

\* Line 125.
processUpdateActor_avatar(w) ==
    /\ pc[w] = "a_avatar"
    /\ \E r \in Results :
         IF r = "ok"
         THEN /\ byActorFull' = [byActorFull EXCEPT ![w].fields =
                     UpdateActorImageInstance(@, "avatar", notice[w].hasAvatar,
                                              notice[w])]
              /\ pc' = [pc EXCEPT ![w] = "a_banner"]
              /\ UNCHANGED <<err, tx, fails>>
         ELSE /\ FailInTx(w, r)
              /\ UNCHANGED byActorFull
    /\ UNCHANGED <<dbVars, notice, attempts, outcome, done, fn, loc, h, calls>>

\* Line 126.
processUpdateActor_banner(w) ==
    /\ pc[w] = "a_banner"
    /\ \E r \in Results :
         IF r = "ok"
         THEN /\ byActorFull' = [byActorFull EXCEPT ![w].fields =
                     UpdateActorImageInstance(@, "banner", notice[w].hasBanner,
                                              notice[w])]
              /\ pc' = [pc EXCEPT ![w] = "a_save"]
              /\ UNCHANGED <<err, tx, fails>>
         ELSE /\ FailInTx(w, r)
              /\ UNCHANGED byActorFull
    /\ UNCHANGED <<dbVars, notice, attempts, outcome, done, fn, loc, h, calls>>

\* Line 128: the actor's fields are written: in the transaction when its t
\* is handed on, straight to the store otherwise.
processUpdateActor_save(w) ==
    /\ pc[w] = "a_save"
    /\ \E r \in Results :
         IF r = "ok"
         THEN /\ IF PassesTransaction("a_save")
                 THEN /\ tx' = [tx EXCEPT ![w].actor = byActorFull[w].fields]
                      /\ UNCHANGED dbActor
                 ELSE /\ dbActor' = [dbActor EXCEPT ![byActorFull[w].id] =
                                        byActorFull[w].fields]
                      /\ UNCHANGED tx
              /\ h' = [h EXCEPT ![w] = Wrote(@, "actor", "a_save")]
              /\ pc' = [pc EXCEPT ![w] = "a_side"]
              /\ UNCHANGED <<err, fails>>
         ELSE /\ FailInTx(w, r)
              /\ UNCHANGED <<dbActor, h>>
    /\ UNCHANGED <<dbSide, dbVideo, dbCache, dbPlaylist, notice, byActorFull,
                   attempts, outcome, done, fn, loc, calls>>

\* Lines 130-135: assign the side instance's fields, then write them: in the
\* transaction when its t is handed on, straight to the store otherwise.
processUpdateActor_side(w) ==
    /\ pc[w] = "a_side"
    /\ byActorFull' = [byActorFull EXCEPT ![w][loc[w].sel] =
                          AssignSideFields(@, loc[w].sel, notice[w])]
    /\ \E r \in Results :
         IF r = "ok"
         THEN /\ IF PassesTransaction("a_side")
                 THEN /\ tx' = [tx EXCEPT ![w].side = byActorFull'[w][loc[w].sel]]
                      /\ UNCHANGED dbSide
                 ELSE /\ dbSide' = [dbSide EXCEPT ![byActorFull[w].id] =
                                       byActorFull'[w][loc[w].sel]]
                      /\ UNCHANGED tx
              /\ h' = [h EXCEPT ![w] = Wrote(@, "side", "a_side")]
              /\ pc' = [pc EXCEPT ![w] = "a_commit"]
              /\ UNCHANGED <<err, fails>>
         ELSE /\ FailInTx(w, r)
              /\ UNCHANGED <<dbSide, h>>
    /\ UNCHANGED <<dbActor, dbVideo, dbCache, dbPlaylist, notice, attempts,
                   outcome, done, fn, loc, calls>>

\* Lines 136-138: the callback returned: the transaction commits both rows
\* at once, or fails and writes none.
processUpdateActor_commit(w) ==
    /\ pc[w] = "a_commit"
    /\ \E r \in Results :
         IF r = "ok"
         THEN /\ dbActor' = IF tx[w].actor = Undefined THEN dbActor
                             ELSE [dbActor EXCEPT ![byActorFull[w].id] =
                                      tx[w].actor]
              /\ dbSide' = IF tx[w].side = Undefined THEN dbSide
                            ELSE [dbSide EXCEPT ![byActorFull[w].id] = tx[w].side]
              /\ tx' = [tx EXCEPT ![w] = NoTx]
              /\ h' = [h EXCEPT ![w].commits = @ + 1]
              /\ pc' = [pc EXCEPT ![w] = "returned"]
              /\ UNCHANGED <<err, fails>>
         ELSE /\ FailInTx(w, r)
              /\ UNCHANGED <<dbActor, dbSide, h>>
    /\ UNCHANGED <<dbVideo, dbCache, dbPlaylist, notice, byActorFull, attempts,
                   outcome, done, fn, loc, calls>>

\* A faulty catch block: only the actor is reset, the side instance is not.
RestoreSnapshots_ActorOnly(actor, l) ==
    IF actor # Undefined /\ l.actorFieldsSave # Undefined
    THEN [actor EXCEPT !.fields = ResetSequelizeInstance(@, l.actorFieldsSave)]
    ELSE actor

\* Lines 140-146: each instance that has a snapshot is reset to it.
RestoreSnapshots(actor, l) ==
    LET a1 == IF actor # Undefined /\ l.actorFieldsSave # Undefined
              THEN [actor EXCEPT !.fields =
                       ResetSequelizeInstance(@, l.actorFieldsSave)]
              ELSE actor
    IN IF l.sel # "none" /\ a1 # Undefined /\ a1[l.sel] # Undefined
          /\ l.accountOrChannelFieldsSave # Undefined
       THEN [a1 EXCEPT ![l.sel] =
                ResetSequelizeInstance(@, l.accountOrChannelFieldsSave)]
       ELSE a1

\* A faulty catch block: it resets the instances and then neither raises nor
\* returns.
processUpdateActor_catch_hang(w) ==
    /\ pc[w] = "a_catch"
    /\ byActorFull' = [byActorFull EXCEPT ![w] = RestoreSnapshots(@, loc[w])]
    /\ UNCHANGED <<dbVars, pc, notice, attempts, err, outcome, done, fn, loc, tx,
                   hist>>

\* A faulty catch block: a new error is raised in place of the one caught.
processUpdateActor_catch_wrap(w) ==
    /\ pc[w] = "a_catch"
    /\ byActorFull' = [byActorFull EXCEPT ![w] = RestoreSnapshots(@, loc[w])]
    /\ err' = [err EXCEPT ![w] = "fatal"]
    /\ pc' = [pc EXCEPT ![w] = "raised"]
    /\ UNCHANGED <<dbVars, notice, attempts, outcome, done, fn, loc, tx, hist>>

\* A faulty catch block: the error is logged and not raised again.
processUpdateActor_catch_swallow(w) ==
    /\ pc[w] = "a_catch"
    /\ byActorFull' = [byActorFull EXCEPT ![w] = RestoreSnapshots(@, loc[w])]
    /\ pc' = [pc EXCEPT ![w] = "returned"]
    /\ UNCHANGED <<dbVars, notice, attempts, err, outcome, done, fn, loc, tx,
                   hist>>

\* Lines 139-151: restore the snapshots and raise the error again.
processUpdateActor_catch(w) ==
    /\ pc[w] = "a_catch"
    /\ byActorFull' = [byActorFull EXCEPT ![w] = RestoreSnapshots(@, loc[w])]
    /\ pc' = [pc EXCEPT ![w] = "raised"]
    /\ UNCHANGED <<dbVars, notice, attempts, err, outcome, done, fn, loc, tx,
                   hist>>

\* ------------------------------------------------------------------- Next

Step(w) ==
    \/ Receive(w)
    \/ processUpdateActivity(w)
    \/ Invoke(w)
    \/ WrapperReturn(w)
    \/ WrapperCatch(w)
    \/ processUpdateVideo_fetch(w)
    \/ processUpdateVideo_update(w)
    \/ processUpdateCacheFile_check(w)
    \/ processUpdateCacheFile_fetch(w)
    \/ processUpdateCacheFile_upsert(w)
    \/ processUpdateCacheFile_forward(w)
    \/ processUpdatePlaylist(w)
    \/ processUpdateActor_begin(w)
    \/ processUpdateActor_update(w)
    \/ processUpdateActor_avatar(w)
    \/ processUpdateActor_banner(w)
    \/ processUpdateActor_save(w)
    \/ processUpdateActor_side(w)
    \/ processUpdateActor_commit(w)
    \/ processUpdateActor_catch(w)

Next == \E w \in Workers : Step(w)

Spec == Init /\ [][Next]_vars

\* ------------------------------------- two workers, one actor's updates

\* The object each worker's notice carries.
PayloadOf(w) == IF w = "w1" THEN "A" ELSE "B"

\* Update activities for the channel actor, of type Group, with a name and
\* an avatar, one payload per worker.
ActorUpdatesFor ==
    [w \in Workers |->
        {Notice("Group", "chan", PayloadOf(w), TRUE, "none", TRUE, TRUE, FALSE)}]

ReceiveActorUpdate(w) == \E n \in ActorUpdatesFor[w] : Accept(w, n)

ActorStep(w) ==
    \/ ReceiveActorUpdate(w)
    \/ processUpdateActivity(w)
    \/ Invoke(w)
    \/ WrapperReturn(w)
    \/ WrapperCatch(w)
    \/ processUpdateActor_begin(w)
    \/ processUpdateActor_update(w)
    \/ processUpdateActor_avatar(w)
    \/ processUpdateActor_banner(w)
    \/ processUpdateActor_save(w)
    \/ processUpdateActor_side(w)
    \/ processUpdateActor_commit(w)
    \/ processUpdateActor_catch(w)

ActorNext == \E w \in Workers : ActorStep(w)

InitBoth == InitStore /\ InitWorkers(Workers)

ActorSpec == InitBoth /\ [][ActorNext]_vars

\* ------------------------------------- two workers, one video's updates

\* Update activities for the remote video, one payload per worker.
VideoUpdatesFor ==
    [w \in Workers |->
        {Notice("Video", "alice", PayloadOf(w), valid, "remote",
                FALSE, FALSE, FALSE) : valid \in BOOLEAN}]

ReceiveVideoUpdate(w) == \E n \in VideoUpdatesFor[w] : Accept(w, n)

VideoStep(w) ==
    \/ ReceiveVideoUpdate(w)
    \/ processUpdateActivity(w)
    \/ Invoke(w)
    \/ WrapperReturn(w)
    \/ WrapperCatch(w)
    \/ processUpdateVideo_fetch(w)
    \/ processUpdateVideo_update(w)

VideoNext == \E w \in Workers : VideoStep(w)

VideoSpec == InitBoth /\ [][VideoNext]_vars

\* ------------------------------------------------------------ properties

\* The worker has a notice in hand or behind it.
Active(w) == pc[w] # "off" /\ notice[w] # Undefined

\* processUpdateActivity has ended for the worker's notice.
Terminated(w) == Active(w) /\ pc[w] = "idle"

\* processUpdateActor has raised in the worker's latest attempt.
ActorHasRaised(w) ==
    /\ Active(w)
    /\ fn[w] = "processUpdateActor"
    /\ \/ pc[w] = "raised"
       \/ pc[w] = "invoke" /\ attempts[w] > 0
       \/ pc[w] = "idle" /\ outcome[w] = "failed"

\* C1: whichever step of the actor transaction fails (and in particular the
\* side-entity save after the actor save went through), once
\* processUpdateActor has raised, the actor and its Account or VideoChannel
\* have their pre-notice field values in the store and in memory, and
\* nothing is left staged.
C1_SnapshotIntegrity ==
    \A w \in Workers :
        ActorHasRaised(w) =>
            /\ byActorFull[w] = h[w].memPre
            /\ Store = h[w].storePre
            /\ tx[w] = NoTx

\* The side-entity save failed after the actor save succeeded, and
\* processUpdateActor has raised.
C1_Witness ==
    \E w \in Workers :
        /\ ActorHasRaised(w)
        /\ pc[w] = "raised"
        /\ fails[w].step = "a_side"
        /\ byActorFull[w] # Undefined
        /\ loc[w].accountOrChannelFieldsSave # Undefined

\* C2: for every notice kind the reconciler is invoked at most RetryBound + 1
\* times, and when every invocation raised a conflict the caller observes
\* the failure after exactly RetryBound + 1 invocations.
C2_RetryBound ==
    \A w \in Workers :
        /\ attempts[w] <= RetryBound + 1
        /\ (Terminated(w) /\ attempts[w] > 0
              /\ fails[w].conflicts = attempts[w])
           => /\ outcome[w] = "failed"
              /\ err[w] = "conflict"
              /\ attempts[w] = RetryBound + 1

\* The actor reconciler raised a conflict in every attempt and the caller
\* has seen the failure.
C2_Witness ==
    \E w \in Workers :
        /\ Terminated(w)
        /\ fn[w] = "processUpdateActor"
        /\ outcome[w] = "failed"
        /\ attempts[w] = RetryBound + 1
        /\ fails[w].conflicts = RetryBound + 1

\* C3: a Video notice for a video that was not known when it arrived creates
\* the replica at most once over all its attempts, exactly once when it
\* completes with a valid object, and never runs the updater; after
\* created = true the reconciler only returns.
C3_IdempotentCreation ==
    \A w \in Workers :
        (Active(w) /\ fn[w] = "processUpdateVideo"
           /\ h[w].storePre.video[notice[w].video] = Undefined)
        => /\ h[w].creates <= 1
           /\ h[w].merges = 0
           /\ "APVideoUpdater.update" \notin calls[w]
           /\ loc[w].created => pc[w] \in {"returned", "idle"}
           /\ (Terminated(w) /\ outcome[w] = "completed" /\ notice[w].valid)
              => h[w].creates = 1

\* An unknown video was created by the second attempt of its notice, after
\* a conflict in the first, and the notice completed.
C3_Witness ==
    \E w \in Workers :
        /\ Terminated(w)
        /\ fn[w] = "processUpdateVideo"
        /\ h[w].storePre.video[notice[w].video] = Undefined
        /\ outcome[w] = "completed"
        /\ attempts[w] = 2
        /\ h[w].creates = 1
        /\ dbVideo[notice[w].video] # Undefined

\* C4: an attempt of processUpdateCacheFile whose redundancy check answered
\* no calls nothing else, leaves the store as the attempt found it, and
\* returns without an error; a cache-file upsert is only called in an attempt
\* whose check answered yes.
C4_DropNotError ==
    \A w \in Workers :
        (Active(w) /\ fn[w] = "processUpdateCacheFile")
        => /\ h[w].auth = "no"
              => /\ calls[w] = {"isRedundancyAccepted"}
                 /\ Store = h[w].storeAtInvoke
                 /\ err[w] = NoError
                 /\ pc[w] \in {"returned", "idle"}
                 /\ pc[w] = "idle" => outcome[w] = "completed"
           /\ "createOrUpdateCacheFile" \in calls[w] => h[w].auth = "yes"

\* A CacheFile notice from a signer that is not accepted has completed.
C4_Witness ==
    \E w \in Workers :
        /\ Terminated(w)
        /\ fn[w] = "processUpdateCacheFile"
        /\ h[w].auth = "no"
        /\ outcome[w] = "completed"

\* C5: every forward call made for a CacheFile notice leaves out the
\* notice's signer.
C5_ForwardExclusion ==
    \A w \in Workers :
        \A f \in h[w].forwards : notice[w].signer \in f.exceptions

\* A CacheFile notice has been forwarded and has completed.
C5_Witness ==
    \E w \in Workers :
        /\ Terminated(w)
        /\ outcome[w] = "completed"
        /\ h[w].forwards # {}

\* C6: forward is called only for a video this node owns; a CacheFile notice
\* for a video it does not own is never forwarded.
C6_OriginOnlyFanOut ==
    \A w \in Workers :
        (Active(w) /\ fn[w] = "processUpdateCacheFile")
        => /\ \A f \in h[w].forwards :
                 dbVideo[f.video] # Undefined /\ dbVideo[f.video].owned
           /\ notice[w].video # "local"
              => /\ h[w].forwards = {}
                 /\ pc[w] # "c_forward"
                 /\ "forwardVideoRelatedActivity" \notin calls[w]

\* A CacheFile notice for the mirrored video stored its entry and completed
\* without a forward.
C6_Witness ==
    \E w \in Workers :
        /\ Terminated(w)
        /\ fn[w] = "processUpdateCacheFile"
        /\ outcome[w] = "completed"
        /\ notice[w].video = "remote"
        /\ notice[w].signer \in StoredActors
        /\ dbCache[<<"remote", notice[w].signer>>] = notice[w].p
        /\ h[w].forwards = {}

\* C7: a Playlist notice whose signer carries no Account never reaches the
\* playlist upsert, changes nothing in the store, and fails at the caller
\* after exactly one invocation of the reconciler.
C7_PlaylistNoAccount ==
    \A w \in Workers :
        (Active(w) /\ fn[w] = "processUpdatePlaylist"
           /\ notice[w].signer \notin Accounts)
        => /\ h[w].playlistUpserts = 0
           /\ calls[w] = {}
           /\ Store = h[w].storePre
           /\ attempts[w] <= 1
           /\ pc[w] \in {"raised", "idle"} => err[w] = "fatal"
           /\ Terminated(w) => outcome[w] = "failed" /\ attempts[w] = 1

\* A Playlist notice from a signer with no Account has failed.
C7_Witness ==
    \E w \in Workers :
        /\ Terminated(w)
        /\ fn[w] = "processUpdatePlaylist"
        /\ notice[w].signer \notin Accounts
        /\ outcome[w] = "failed"

\* C8: a notice of a kind the dispatcher does not name ends at once: no
\* signer load, no wrapper, no reconciler, no collaborator, the store
\* unchanged, no error.
C8_UnknownKindNoOp ==
    \A w \in Workers :
        (Active(w) /\ pc[w] # "dispatch"
           /\ notice[w].kind \notin {"Video", "Person", "Application", "Group",
                                     "CacheFile", "Playlist"})
        => /\ pc[w] = "idle"
           /\ outcome[w] = "completed"
           /\ fn[w] = "none"
           /\ attempts[w] = 0
           /\ h[w].loads = 0
           /\ ~h[w].wrapped
           /\ calls[w] = {}
           /\ byActorFull[w] = Undefined
           /\ err[w] = NoError
           /\ fails[w] = Fails0
           /\ Store = h[w].storePre

\* A notice of an unknown kind has been handled.
C8_Witness ==
    \E w \in Workers :
        /\ Terminated(w)
        /\ notice[w].kind = "Note"
        /\ outcome[w] = "completed"

\* C9: when the load of the full signer finds no row, an Actor-kind or
\* CacheFile notice is dropped: no reconciler is invoked and the store is
\* not changed.
C9_SignerNotFoundDrops ==
    \A w \in Workers :
        (Active(w) /\ notice[w].kind \in ActorKinds \cup {"CacheFile"}
           /\ h[w].loads > 0 /\ h[w].memPre = Undefined)
        => /\ attempts[w] = 0
           /\ Store = h[w].storePre

\* C9, the store half alone: with the signer not found the store is not
\* changed.
C9_SignerNotFoundStore ==
    \A w \in Workers :
        (Active(w) /\ notice[w].kind \in ActorKinds \cup {"CacheFile"}
           /\ h[w].loads > 0 /\ h[w].memPre = Undefined)
        => Store = h[w].storePre

\* C10 as stated: once a reconciler has raised an error that is not a
\* conflict, it has been invoked exactly once for the notice.
C10_InvokedExactlyOnce ==
    \A w \in Workers :
        (Active(w) /\ fails[w].fatals > 0) => attempts[w] = 1

\* C10 amended: an error that is not a conflict ends the notice: the attempt
\* that raised it is the last one (every earlier attempt ended in a conflict
\* that was retried), nothing is invoked after it, and the caller gets that
\* error.
C10_NonTransientNotRetried ==
    \A w \in Workers :
        (Active(w) /\ fails[w].fatals > 0)
        => /\ fails[w].fatals = 1
           /\ err[w] = "fatal"
           /\ pc[w] \in {"a_catch", "raised", "idle"}
           /\ attempts[w] = fails[w].conflicts + 1
           /\ pc[w] = "idle" => outcome[w] = "failed"

\* The actor reconciler raised an error that is not a conflict in its first
\* attempt, with the signer loaded, and the caller has seen it.
C10_Witness ==
    \E w \in Workers :
        /\ Terminated(w)
        /\ fn[w] = "processUpdateActor"
        /\ byActorFull[w] # Undefined
        /\ fails[w].fatals = 1
        /\ attempts[w] = 1
        /\ outcome[w] = "failed"

\* ------------------------------------------------------------------ C11
\* The fields an actor object carries into the actor's row.
ExpectedActorRow(row, n) ==
    [preferredUsername |-> Val("preferredUsername", n.p),
     avatar |-> IF n.hasAvatar THEN Val("avatar", n.p) ELSE row.avatar,
     banner |-> IF n.hasBanner THEN Val("banner", n.p) ELSE row.banner]

\* The name an actor object carries into the side row.
ExpectedName(n) ==
    IF n.hasName THEN Val("name", n.p) ELSE Val("preferredUsername", n.p)

\* Every replica but the signer's actor row and side row is as it was when
\* the notice arrived.
FrameOutsideSigner(w) ==
    /\ \A a \in StoredActors \ {notice[w].signer} :
          /\ dbActor[a] = h[w].storePre.actor[a]
          /\ dbSide[a] = h[w].storePre.side[a]
    /\ dbVideo = h[w].storePre.video
    /\ dbCache = h[w].storePre.cache
    /\ dbPlaylist = h[w].storePre.playlist

\* C11: after a successful actor update of type Group the signer's channel
\* row has the object's support, name and description and its actor row the
\* object's actor-level fields, and no other replica has changed; after a
\* successful update of another actor type the side row is the account's,
\* with the object's name and description; an account row never has a
\* support field.
C11_GroupSupportFrame ==
    /\ \A a \in Accounts : "support" \notin DOMAIN dbSide[a]
    /\ \A w \in Workers :
          (/\ Terminated(w)
           /\ fn[w] = "processUpdateActor"
           /\ outcome[w] = "completed")
          => LET n == notice[w]
                 s == n.signer
             IN /\ s \in StoredActors
                /\ FrameOutsideSigner(w)
                /\ dbActor[s] = ExpectedActorRow(h[w].storePre.actor[s], n)
                /\ IF n.kind = "Group"
                   THEN /\ SideOf(s) = "VideoChannel"
                        /\ dbSide[s] = [name |-> ExpectedName(n),
                                        description |-> Val("summary", n.p),
                                        support |-> Val("support", n.p)]
                   ELSE /\ SideOf(s) = "Account"
                        /\ dbSide[s] = [name |-> ExpectedName(n),
                                        description |-> Val("summary", n.p)]

\* A Group update of a channel completed, and so did a Person update of an
\* account (in another run).
C11_Witness ==
    \E w \in Workers :
        /\ Terminated(w)
        /\ fn[w] = "processUpdateActor"
        /\ outcome[w] = "completed"
        /\ notice[w].kind = "Group"
        /\ h[w].storePre.side[notice[w].signer].support = Old("support")
        /\ dbSide[notice[w].signer].support = Val("support", notice[w].p)
        /\ h[w].commits = 1

\* ------------------------------------------------------------------ C12
\* The positions of processUpdateActor between the opening of its
\* transaction and the end of the callback.
InActorTransaction(w) ==
    pc[w] \in {"a_update", "a_avatar", "a_banner", "a_save", "a_side", "a_commit"}

NothingHappened(w) ==
    /\ h[w].writes = {}
    /\ h[w].forwards = {}
    /\ h[w].creates = 0 /\ h[w].merges = 0 /\ h[w].cacheUpserts = 0
    /\ Store = h[w].storePre
    /\ err[w] = NoError
    /\ fails[w] = Fails0

\* C13: a Video notice whose object fails validation, and a CacheFile notice
\* of an accepted signer whose object fails validation, are dropped before
\* any fetch-or-create, upsert or forward call: no store mutation, no error,
\* and the reconciler is invoked exactly once and returns.
C13_ValidationDrop ==
    \A w \in Workers :
        /\ (Active(w) /\ fn[w] = "processUpdateVideo" /\ ~notice[w].valid)
           => /\ NothingHappened(w)
              /\ calls[w] = {}
              /\ attempts[w] <= 1
              /\ pc[w] \in {"invoke", "v_start", "returned", "idle"}
              /\ pc[w] = "idle" => outcome[w] = "completed" /\ attempts[w] = 1
        /\ (Active(w) /\ fn[w] = "processUpdateCacheFile" /\ ~notice[w].valid
             /\ h[w].auth = "yes")
           => /\ NothingHappened(w)
              /\ calls[w] = {"isRedundancyAccepted"}
              /\ attempts[w] = 1
              /\ pc[w] \in {"returned", "idle"}
              /\ pc[w] = "idle" => outcome[w] = "completed"

\* An invalid cache-file object of an accepted signer has been dropped.
C13_Witness ==
    \E w \in Workers :
        /\ Terminated(w)
        /\ fn[w] = "processUpdateCacheFile"
        /\ ~notice[w].valid
        /\ h[w].auth = "yes"
        /\ outcome[w] = "completed"

\* ------------------------------------------------------------------ C14
\* C14: every attempt of processUpdateActor starts with the actor and its
\* side instance as they were in memory before the first attempt, and the
\* snapshots an attempt takes are those values, whatever the attempt's number.
C14_RetryStartsFromSnapshot ==
    \A w \in Workers :
        (Active(w) /\ fn[w] = "processUpdateActor" /\ attempts[w] >= 1)
        => /\ pc[w] = "a_begin" => byActorFull[w] = h[w].memPre
           /\ loc[w].actorFieldsSave # Undefined
              => loc[w].actorFieldsSave = h[w].memPre.fields
           /\ loc[w].accountOrChannelFieldsSave # Undefined
              => loc[w].accountOrChannelFieldsSave = h[w].memPre[loc[w].sel]

\* A second attempt has taken its snapshots after the first one failed with
\* both instances assigned.
C14_Witness ==
    \E w \in Workers :
        /\ fn[w] = "processUpdateActor"
        /\ attempts[w] = 2
        /\ pc[w] = "a_update"
        /\ fails[w].step \in {"a_side", "a_commit"}
        /\ loc[w].accountOrChannelFieldsSave = h[w].memPre[loc[w].sel]
        /\ loc[w].actorFieldsSave = h[w].memPre.fields

\* ------------------------------------------------------------------ C15
\* C15: when a step of the actor transaction fails, processUpdateActor
\* raises the very error that failed, after the snapshots are back in
\* place, and the caller gets that error; processUpdateActor returns only
\* from an attempt in which nothing failed and the transaction committed.
C15_FailuresNotSwallowed ==
    \A w \in Workers :
        (Active(w) /\ fn[w] = "processUpdateActor")
        => /\ pc[w] = "a_catch"
              => err[w] \in Errors /\ err[w] = fails[w].error
           /\ pc[w] = "raised"
              => /\ err[w] \in Errors
                 /\ err[w] = fails[w].error
                 /\ byActorFull[w] = h[w].memPre
                 /\ fails[w].conflicts + fails[w].fatals = attempts[w]
           /\ (pc[w] = "idle" /\ outcome[w] = "failed")
              => err[w] \in Errors /\ err[w] = fails[w].error
           /\ (pc[w] = "returned" \/ (pc[w] = "idle" /\ outcome[w] = "completed"))
              => /\ err[w] = NoError
                 /\ h[w].commits = 1
                 /\ fails[w].conflicts + fails[w].fatals = attempts[w] - 1

\* A conflict at the commit has been raised again by processUpdateActor.
C15_Witness ==
    \E w \in Workers :
        /\ fn[w] = "processUpdateActor"
        /\ pc[w] = "raised"
        /\ fails[w].step = "a_commit"
        /\ err[w] = "conflict"
        /\ byActorFull[w] = h[w].memPre

\* ------------------------------------------------------------------ C16
\* Every worker keeps taking its steps: a collaborator call that was made
\* returns or raises, and no worker is left unscheduled.
Fairness == \A w \in Workers : WF_vars(Step(w))

FairSpec == Init /\ [][Next]_vars /\ Fairness

\* C16: every call of processUpdateActivity ends, with the notice completed
\* (reconciled or dropped) or failed towards the caller, after at most
\* RetryBound + 1 invocations of its reconciler.
C16_EveryCallTerminates ==
    \A w \in Workers :
        (pc[w] = "dispatch")
        ~> (/\ pc[w] = "idle"
            /\ outcome[w] \in {"completed", "failed"}
            /\ attempts[w] <= RetryBound + 1)

\* A notice failed towards the caller after the last retry.
C16_Witness ==
    \E w \in Workers :
        /\ Terminated(w)
        /\ outcome[w] = "failed"
        /\ attempts[w] = RetryBound + 1
        /\ err[w] = "conflict"

\* ------------------------------------------------------------------ C19
\* C19: in every attempt of processUpdateCacheFile the forward is reached
\* only after the upsert transaction of that attempt committed, and an
\* attempt whose upsert raised makes no forward call.
C19_ForwardAfterCommit ==
    \A w \in Workers :
        (Active(w) /\ fn[w] = "processUpdateCacheFile")
        => /\ (pc[w] = "c_forward" \/ "forwardVideoRelatedActivity" \in calls[w])
              => /\ h[w].upserted
                 /\ "createOrUpdateCacheFile" \in calls[w]
                 /\ byActorFull[w] # Undefined
                 /\ dbCache[<<loc[w].video, byActorFull[w].id>>] = notice[w].p
           /\ (pc[w] = "raised" /\ fails[w].step = "c_upsert")
              => /\ ~h[w].upserted
                 /\ "forwardVideoRelatedActivity" \notin calls[w]

\* A second attempt forwarded after its own upsert, the first attempt's
\* upsert having raised.
C19_Witness ==
    \E w \in Workers :
        /\ fn[w] = "processUpdateCacheFile"
        /\ attempts[w] = 2
        /\ fails[w].step = "c_upsert"
        /\ h[w].upserted
        /\ "forwardVideoRelatedActivity" \in calls[w]

\* ------------------------------------------------------------------ C20
\* The signer was found and lacks the side instance the object's type asks
\* for: a Group object for an actor with no channel, a Person or Application
\* object for an actor with no account.
MissingSide(w) ==
    /\ Active(w)
    /\ fn[w] = "processUpdateActor"
    /\ attempts[w] >= 1
    /\ h[w].memPre # Undefined
    /\ h[w].memPre[IF notice[w].kind = "Group" THEN "VideoChannel"
                   ELSE "Account"] = Undefined

\* C20: with the side instance missing, processUpdateActor raises at the
\* side snapshot, before any field of the actor is assigned and before any
\* save; the catch block resets only the actor, whose snapshot was taken;
\* the actor in memory and every stored replica are unchanged, and the error
\* reaches the caller from the first attempt.
C20_MissingSideFailsCleanly ==
    \A w \in Workers :
        MissingSide(w)
        => /\ pc[w] \in {"a_begin", "a_catch", "raised", "idle"}
           /\ calls[w] = {}
           /\ h[w].writes = {}
           /\ tx[w] = NoTx
           /\ byActorFull[w] = h[w].memPre
           /\ Store = h[w].storePre
           /\ loc[w].accountOrChannelFieldsSave = Undefined
           /\ attempts[w] = 1
           /\ pc[w] # "a_begin"
              => /\ loc[w].actorFieldsSave = h[w].memPre.fields
                 /\ fails[w].step = "a_begin"
                 /\ err[w] = "fatal"
           /\ pc[w] = "idle" => outcome[w] = "failed"

\* A Group object for an actor that has an account and no channel has
\* failed towards the caller.
C20_Witness ==
    \E w \in Workers :
        /\ MissingSide(w)
        /\ notice[w].kind = "Group"
        /\ h[w].memPre.Account # Undefined
        /\ Terminated(w)
        /\ outcome[w] = "failed"

\* ------------------------------------------------------------------ C17
\* The notice a stored value was taken from: "old" for a pre-notice value.
From(value) == value[2]

\* The actor's row and its side row hold values of one and the same notice.
Untorn(a) ==
    /\ From(dbSide[a].name) = From(dbActor[a].preferredUsername)
    /\ From(dbSide[a].description) = From(dbActor[a].preferredUsername)
    /\ "support" \in DOMAIN dbSide[a]
       => From(dbSide[a].support) = From(dbActor[a].preferredUsername)

\* The notice the channel actor's stored values were of when the worker's
\* notice arrived.
PreFrom(w) == From(h[w].storePre.actor["chan"].preferredUsername)

\* C17: with two workers reconciling actor updates A and B of one actor,
\* conflicts reported by the store and the loser re-run by the wrapper, the
\* stored actor-level fields and the stored side fields are of the same
\* notice at every moment, and once both workers have terminated they are
\* those of a notice whose transaction committed, or, when none committed,
\* the values that were stored when the notices arrived.
C17_NoTornActor ==
    /\ \A a \in StoredActors : Untorn(a)
    /\ (\A w \in Workers : Terminated(w))
       => LET src == From(dbActor["chan"].preferredUsername)
              committed == {w \in Workers : h[w].commits > 0}
              earlier == {PreFrom(w) : w \in Workers \ committed}
          IN /\ committed = {} => src \in earlier
             /\ committed # {}
                => src \in {notice[w].p : w \in committed}
                           \cup (earlier \ {"old"})

\* Both workers have terminated; the one lost a conflict, was run again and
\* committed after the other: the stored rows are all of its notice.
C17_Witness ==
    \E w, v \in Workers :
        /\ w # v
        /\ Terminated(w) /\ Terminated(v)
        /\ h[w].commits = 1 /\ h[v].commits = 1
        /\ fails[w].conflicts > 0
        /\ From(dbActor["chan"].preferredUsername) = notice[w].p
        /\ From(dbSide["chan"].support) = notice[w].p
        /\ notice[v].p # notice[w].p

\* ------------------------------------------------------------------ C18
\* The workers whose fetch-or-create of the current notice created the
\* replica.
Creators == {w \in Workers : h[w].creates > 0}

\* C18: with two workers reconciling Video updates of one video, the replica
\* is created at most once and exists once a valid notice has completed; the
\* worker whose fetch-or-create created it returns without a merge and
\* without a retry, and a merge is made only by a worker whose
\* fetch-or-create found the replica.
C18_CreationBoundary ==
    /\ Cardinality(Creators) <= 1
    /\ \A w \in Workers :
          /\ h[w].creates <= 1
          /\ h[w].creates = 1
             => /\ h[w].merges = 0
                /\ "APVideoUpdater.update" \notin calls[w]
                /\ pc[w] \in {"returned", "idle"}
                /\ pc[w] = "idle" => outcome[w] = "completed"
          /\ (pc[w] = "v_update" \/ h[w].merges > 0)
             => h[w].creates = 0 /\ ~loc[w].created
          /\ (Terminated(w) /\ outcome[w] = "completed" /\ notice[w].valid)
             => dbVideo[notice[w].video] # Undefined

\* Both workers have completed a valid notice for the video neither knew:
\* the one created the replica, the other merged into it.
C18_Witness ==
    \E w, v \in Workers :
        /\ w # v
        /\ Terminated(w) /\ Terminated(v)
        /\ h[w].storePre.video["remote"] = Undefined
        /\ h[v].storePre.video["remote"] = Undefined
        /\ h[w].creates = 1 /\ h[w].merges = 0
        /\ h[v].creates = 0 /\ h[v].merges = 1
        /\ outcome[v] = "completed"
        /\ dbVideo["remote"].desc = Val("desc", notice[v].p)

=============================================================================
